---- MODULE Spec2Model ----
(***************************************************************************)
(* Model of core/routemgmt/deleteApi/deleteApi.js: the deleteApi action.   *)
(* main(message) validates its parameters and then runs a promise chain    *)
(* against the API gateway helpers of utils.js.  Spec is one invocation,   *)
(* every handler of the chain being one action; ConcurrentSpec is several  *)
(* invocations against one gateway.                                        *)
(***************************************************************************)
EXTENDS Integers, Sequences, FiniteSets, TLC

(***************************************************************************)
(* JavaScript values.  A value is a record with its type tag, so that      *)
(* undefined, strings and non-strings can be told apart and compared.      *)
(* Message texts are sequences of string pieces; + is \o and '' is <<>>.   *)
(***************************************************************************)
Undefined == [t |-> "undefined", v |-> ""]

Str(s) == [t |-> "string", v |-> s]

Num(n) == [t |-> "number", v |-> n]

Truthy(x) == ~ (x.t = "undefined" \/ (x.t = "string" /\ x.v = ""))

\* a || b with the operands exchanged
Or_swapped(a, b) == IF Truthy(b) THEN b ELSE a

Or(a, b) == IF Truthy(a) THEN a ELSE b

\* toLowerCase leaving the text as it is
toLowerCase_asIs(s) == s

toLowerCase(s) ==
  CASE s = "GET" -> "get"
    [] s = "POST" -> "post"
    [] OTHER -> s

\* Buffer.from(user+':'+pwd,'ascii').toString('base64')
Base64(user, pwd) ==
  CASE user = "user" /\ pwd = "pwd" -> "dXNlcjpwd2Q="
    [] OTHER -> "base64(" \o user \o ":" \o pwd \o ")"

(***************************************************************************)
(* Bounds and the inputs of the model.                                     *)
(***************************************************************************)
MaxTenants == 2

MaxApis == 2

TenantIds == {Str("t1"), Str("t2")}

ApiIds == {Str("api1"), Str("api2")}

Resource(p, m) == [gatewayPath |-> p, gatewayMethod |-> m, action |-> p \o ":" \o m]

\* Endpoint definitions the gateway may hold for one API.
GwResources ==
  { {Resource("/a", "get"), Resource("/a", "post"), Resource("/c", "get")},
    {Resource("/a", "get")},
    {} }

GwApis == [id : ApiIds, tenantId : TenantIds, resources : GwResources]

Tenants == [id : TenantIds]

SeqsUpTo(S, n) == UNION {[1..k -> S] : k \in 0..n}

GatewayErrors == {<<"gateway error">>}

Messages ==
  [gwUrl : {Undefined, Str(""), Str("http://gw.com")},
   gwUser : {Undefined, Str("user")},
   gwPwd : {Undefined, Str("pwd")},
   namespace : {Undefined, Str("nsPlain")},
   ow_meta_namespace : {Undefined, Str(""), Str("nsMeta")},
   tenantInstance : {Undefined, Str(""), Str("inst")},
   basepath : {Undefined, Str(""), Str("/base")},
   relpath : {Undefined, Str(""), Str("/a"), Str("/c")},
   operation : {Undefined, Str(""), Str("get"), Str("GET"), Str("post"), Num(7)}]

(***************************************************************************)
(* State of one invocation.                                                *)
(***************************************************************************)
VARIABLES
  input,            \* the parameters as the caller passed them
  message,          \* the parameter object of main (mutated by the action)
  pc,               \* the handler of the chain that runs next
  gwInfo,           \* var gwInfo
  tenantInstance,   \* var tenantInstance
  deleteEntireApi,  \* var deleteEntireApi
  tenantId,         \* var tenantId of main's scope
  tenantsLength,    \* tenants.length seen by the first handler
  apisLength,       \* apis.length seen by the third handler
  value,            \* value the chain is currently resolved with
  reason,           \* reason the chain is currently rejected with
  result,           \* what main's caller gets
  calls,            \* calls made into utils.js, in order
  unhandled         \* rejected promises nobody returned or caught

(***************************************************************************)
(* State of several invocations that run at the same time against one      *)
(* gateway.  Every invocation has its own closure of main: its variables   *)
(* are the fields of its record.                                           *)
(***************************************************************************)
VARIABLES
  invs,             \* the invocations: for each the variables of its main
  gateway,          \* the tenants and the APIs the gateway holds now
  gatewayAtStart    \* what the gateway held when the invocations started

concurrent == <<invs, gateway, gatewayAtStart>>

vars == <<input, message, pc, gwInfo, tenantInstance, deleteEntireApi, tenantId,
          tenantsLength, apisLength, value, reason, result, calls, unhandled,
          invs, gateway, gatewayAtStart>>

Prefix == <<"API deletion failure: ">>

Pending == [kind |-> "pending", reason |-> <<>>]

Fulfilled == [kind |-> "fulfilled", reason |-> <<>>]

Rejected(r) == [kind |-> "rejected", reason |-> r]

Thrown(r) == [kind |-> "threw", reason |-> r]

(***************************************************************************)
(* validateArgs(message): the error text ('' when valid), the message as   *)
(* the function leaves it, and whether the function threw.                 *)
(***************************************************************************)
\* lines 140-155, with the basepath test of lines 153-155 left out
checkRequired_noBasepath(m) ==
  IF m = Undefined THEN
    <<"Internal error.  A message parameter was not supplied.">>
  ELSE IF ~ Truthy(m.gwUrl) THEN
    <<"gwUrl is required.">>
  ELSE IF ~ Truthy(m.ow_meta_namespace) THEN
    <<"__ow_meta_namespace is required.">>
  ELSE
    <<>>

\* lines 140-155: the message for the first required parameter that is missing
checkRequired(m) ==
  IF m = Undefined THEN
    <<"Internal error.  A message parameter was not supplied.">>
  ELSE IF ~ Truthy(m.gwUrl) THEN
    <<"gwUrl is required.">>
  ELSE IF ~ Truthy(m.ow_meta_namespace) THEN
    <<"__ow_meta_namespace is required.">>
  ELSE IF ~ Truthy(m.basepath) THEN
    <<"basepath is required.">>
  ELSE
    <<>>

\* line 157 always false
operationWithoutRelpath_never(m) == FALSE

\* line 157
operationWithoutRelpath(m) == ~ Truthy(m.relpath) /\ Truthy(m.operation)

validateArgs(m) ==
  IF checkRequired(m) # <<>> THEN
    [ret |-> checkRequired(m), message |-> m, threw |-> FALSE]
  ELSE IF operationWithoutRelpath(m) THEN
    [ret |-> <<"When specifying an operation, the relpath is required.">>,
     message |-> m, threw |-> FALSE]
  ELSE IF Truthy(m.operation) THEN
    IF m.operation.t = "string" THEN
      [ret |-> <<>>,
       message |-> [m EXCEPT !.operation = Str(toLowerCase(m.operation.v))],
       threw |-> FALSE]
    ELSE
      \* message.operation.toLowerCase is not a function
      [ret |-> <<"TypeError">>, message |-> m, threw |-> TRUE]
  ELSE
    [ret |-> <<>>, message |-> m, threw |-> FALSE]

\* var gwInfo = { gwUrl: ... }; gwAuth only when both gwUser and gwPwd are set
makeGwInfo(m) ==
  [gwUrl |-> m.gwUrl,
   gwAuth |-> IF Truthy(m.gwUser) /\ Truthy(m.gwPwd)
              THEN Str(Base64(m.gwUser.v, m.gwPwd.v))
              ELSE Undefined]

(***************************************************************************)
(* Calls into utils.js.                                                    *)
(***************************************************************************)
getTenants(gw, ns, inst) ==
  [op |-> "getTenants", gwInfo |-> gw, namespace |-> ns, tenantInstance |-> inst]

\* line 96 without the basepath
getApis_noBasepath(gw, tid, bp) ==
  [op |-> "getApis", gwInfo |-> gw, tenantId |-> tid, basepath |-> Undefined]

getApis(gw, tid, bp) ==
  [op |-> "getApis", gwInfo |-> gw, tenantId |-> tid, basepath |-> bp]

deleteApiFromGateway(gw, id) ==
  [op |-> "deleteApiFromGateway", gwInfo |-> gw, apiId |-> id]

addApiToGateway(gw, tid, doc, id) ==
  [op |-> "addApiToGateway", gwInfo |-> gw, tenantId |-> tid, swaggerApi |-> doc,
   apiId |-> id]

\* no gateway is modelled: the results of its calls are arbitrary
NoGateway == [tenants |-> <<>>, apis |-> <<>>]

Init ==
  /\ message \in Messages \cup {Undefined}
  /\ input = message
  /\ pc = "main"
  /\ gwInfo = Undefined
  /\ tenantInstance = Undefined
  /\ deleteEntireApi = FALSE
  /\ tenantId = Undefined
  /\ tenantsLength = -1
  /\ apisLength = -1
  /\ value = Undefined
  /\ reason = <<>>
  /\ result = Pending
  /\ calls = <<>>
  /\ unhandled = {}
  /\ invs = <<>>
  /\ gateway = NoGateway
  /\ gatewayAtStart = NoGateway

(***************************************************************************)
(* main, lines 38-80: validation, set-up and the call of utils.getTenants. *)
(***************************************************************************)
main ==
  /\ pc = "main"
  /\ LET v == validateArgs(message)
         m == [v.message EXCEPT
                 !.namespace = Or(v.message.ow_meta_namespace, v.message.namespace)]
     IN
     IF v.threw THEN
       /\ pc' = "threw"
       /\ result' = Thrown(v.ret)
       /\ message' = v.message
       /\ UNCHANGED <<gwInfo, tenantInstance, deleteEntireApi, calls>>
     ELSE IF v.ret # <<>> THEN
       /\ pc' = "failed"
       /\ result' = Rejected(v.ret)
       /\ message' = v.message
       /\ UNCHANGED <<gwInfo, tenantInstance, deleteEntireApi, calls>>
     ELSE
       /\ message' = m
       /\ gwInfo' = makeGwInfo(m)
       /\ tenantInstance' = Or(m.tenantInstance, Str("openwhisk"))
       /\ deleteEntireApi' = ~ Truthy(m.relpath)
       /\ calls' = Append(calls, getTenants(makeGwInfo(m), m.namespace,
                                            Or(m.tenantInstance, Str("openwhisk"))))
       /\ pc' = "tenantsThen"
       /\ UNCHANGED result
  /\ UNCHANGED <<input, tenantId, tenantsLength, apisLength, value, reason, unhandled>>
  /\ UNCHANGED concurrent

(***************************************************************************)
(* utils.generateSwaggerApiFromGwApi and utils.removeEndpointFromSwaggerApi*)
(* (utils.js): the gateway's endpoint definitions become a document        *)
(* paths[relpath][operation], from which one operation or one path is      *)
(* removed.  The removal returns the document, or an error text.           *)
(***************************************************************************)
generateSwaggerApiFromGwApi(api) ==
  [paths |->
     [p \in {e.gatewayPath : e \in api.resources} |->
        [o \in {e.gatewayMethod : e \in {r \in api.resources : r.gatewayPath = p}} |->
           (CHOOSE e \in api.resources :
              e.gatewayPath = p /\ e.gatewayMethod = o).action]]]

Without(f, k) == [x \in (DOMAIN f) \ {k} |-> f[x]]

removeEndpointFromSwaggerApi(swaggerApi, endpoint) ==
  LET relpath == endpoint.gatewayPath
      operation == endpoint.gatewayMethod
      paths == swaggerApi.paths
  IN
  IF ~ (relpath.t = "string" /\ relpath.v \in DOMAIN paths) THEN
    [t |-> "string", v |-> <<"relpath ", relpath.v, " does not exist in the API">>]
  ELSE IF Truthy(operation) THEN
    IF ~ (operation.t = "string" /\ operation.v \in DOMAIN paths[relpath.v]) THEN
      [t |-> "string",
       v |-> <<"relpath ", relpath.v, " with operation ", operation.v,
               " does not exist in the API">>]
    ELSE
      LET ops == Without(paths[relpath.v], operation.v)
      IN IF DOMAIN ops = {}
         THEN [t |-> "object", v |-> [paths |-> Without(paths, relpath.v)]]
         ELSE [t |-> "object", v |-> [paths |-> [paths EXCEPT ![relpath.v] = ops]]]
  ELSE
    [t |-> "object", v |-> [paths |-> Without(paths, relpath.v)]]

generateCall(api) == [op |-> "generateSwaggerApiFromGwApi", gwApi |-> api]

removeCall(doc, endpoint) ==
  [op |-> "removeEndpointFromSwaggerApi", swaggerApi |-> doc, endpoint |-> endpoint]

(***************************************************************************)
(* The handlers of the promise chain.                                      *)
(***************************************************************************)
\* lines 83-92 without the test of line 86: the first of several tenants is taken
tenantsResult_first(tenants, m, inst) ==
  IF Len(tenants) = 0 THEN
    [rejected |-> TRUE, v |-> <<"No Tenant found for namespace ", m.namespace.v>>]
  ELSE
    [rejected |-> FALSE, v |-> tenants[1].id]

\* lines 83-92: what the first handler returns for the tenants it is given
tenantsResult(tenants, m, inst) ==
  IF Len(tenants) = 0 THEN
    [rejected |-> TRUE, v |-> <<"No Tenant found for namespace ", m.namespace.v>>]
  ELSE IF Len(tenants) > 1 THEN
    [rejected |-> TRUE,
     v |-> <<"Internal error. Multiple API Gateway tenants found for namespace ",
             m.namespace.v, " and tenant instance ", inst.v>>]
  ELSE
    [rejected |-> FALSE, v |-> tenants[1].id]

\* lines 81-93
tenantsThen ==
  /\ pc = "tenantsThen"
  /\ \E tenants \in SeqsUpTo(Tenants, MaxTenants) :
       LET r == tenantsResult(tenants, message, tenantInstance)
       IN /\ tenantsLength' = Len(tenants)
          /\ IF r.rejected
             THEN /\ reason' = r.v
                  /\ pc' = "catch"
                  /\ UNCHANGED <<tenantId, value>>
             ELSE /\ tenantId' = r.v
                  /\ value' = r.v
                  /\ pc' = "tenantIdThen"
                  /\ UNCHANGED reason
  /\ UNCHANGED <<input, message, gwInfo, tenantInstance, deleteEntireApi, apisLength,
                 result, calls, unhandled>>
  /\ UNCHANGED concurrent

\* lines 94-97
tenantIdThen ==
  /\ pc = "tenantIdThen"
  /\ calls' = Append(calls, getApis(gwInfo, value, message.basepath))
  /\ pc' = "apisThen"
  /\ UNCHANGED <<input, message, gwInfo, tenantInstance, deleteEntireApi, tenantId,
                 tenantsLength, apisLength, value, reason, result, unhandled>>
  /\ UNCHANGED concurrent

multipleApisMsg(m) ==
  <<"Internal error. Multiple APIs found for namespace ", m.namespace.v,
    " with basepath ", m.basepath.v>>

\* lines 100-107: what the third handler returns, and the promise it drops
apisResult(apis, m) ==
  IF Len(apis) = 0 THEN
    [rejected |-> TRUE, v |-> <<"API ", m.basepath.v, " does not exist.">>,
     dropped |-> {}]
  ELSE IF Len(apis) > 1 THEN
    \* Promise.reject(...) without return: the handler goes on to line 107
    [rejected |-> FALSE, v |-> apis[1], dropped |-> {multipleApisMsg(m)}]
  ELSE
    [rejected |-> FALSE, v |-> apis[1], dropped |-> {}]

\* lines 98-108
apisThen ==
  /\ pc = "apisThen"
  /\ \E apis \in SeqsUpTo(GwApis, MaxApis) :
       LET r == apisResult(apis, message)
       IN /\ apisLength' = Len(apis)
          /\ unhandled' = unhandled \cup r.dropped
          /\ IF r.rejected
             THEN /\ reason' = r.v
                  /\ pc' = "catch"
                  /\ UNCHANGED value
             ELSE /\ value' = r.v
                  /\ pc' = "gwApiThen"
                  /\ UNCHANGED reason
  /\ UNCHANGED <<input, message, gwInfo, tenantInstance, deleteEntireApi, tenantId,
                 tenantsLength, result, calls>>
  /\ UNCHANGED concurrent

\* lines 116-119 without the operation
makeEndpoint_noOperation(m) == [gatewayMethod |-> Undefined, gatewayPath |-> m.relpath]

\* lines 116-119
makeEndpoint(m) == [gatewayMethod |-> m.operation, gatewayPath |-> m.relpath]

\* line 112 with the API's tenant id in the place of its id
deleteCall_tenantId(gw, gwApi) == deleteApiFromGateway(gw, gwApi.tenantId)

\* line 112
deleteCall(gw, gwApi) == deleteApiFromGateway(gw, gwApi.id)

\* line 124 with the document as it was before the removal
updateCall_unedited(gw, gwApi, swaggerOrErrMsg) ==
  addApiToGateway(gw, gwApi.tenantId, generateSwaggerApiFromGwApi(gwApi), gwApi.id)

\* line 124
updateCall(gw, gwApi, swaggerOrErrMsg) ==
  addApiToGateway(gw, gwApi.tenantId, swaggerOrErrMsg.v, gwApi.id)

\* line 121 never taking the result for an error text
isErrMsg_never(swaggerOrErrMsg) == FALSE

\* line 121
isErrMsg(swaggerOrErrMsg) == swaggerOrErrMsg.t = "string"

\* lines 109-126
gwApiThen ==
  /\ pc = "gwApiThen"
  /\ IF deleteEntireApi THEN
       /\ calls' = Append(calls, deleteCall(gwInfo, value))
       /\ pc' = "successThen"
       /\ UNCHANGED reason
     ELSE
       LET swaggerApi == generateSwaggerApiFromGwApi(value)
           endpoint == makeEndpoint(message)
           swaggerOrErrMsg == removeEndpointFromSwaggerApi(swaggerApi, endpoint)
           edit == <<generateCall(value), removeCall(swaggerApi, endpoint)>>
       IN IF isErrMsg(swaggerOrErrMsg)
          THEN /\ calls' = calls \o edit
               /\ reason' = swaggerOrErrMsg.v
               /\ pc' = "catch"
          ELSE /\ calls' = calls \o edit \o <<updateCall(gwInfo, value, swaggerOrErrMsg)>>
               /\ pc' = "successThen"
               /\ UNCHANGED reason
  /\ UNCHANGED <<input, message, gwInfo, tenantInstance, deleteEntireApi, tenantId,
                 tenantsLength, apisLength, value, result, unhandled>>
  /\ UNCHANGED concurrent

\* lines 127-130: the last gateway call resolved
successThen ==
  /\ pc = "successThen"
  /\ pc' = "done"
  /\ result' = Fulfilled
  /\ UNCHANGED <<input, message, gwInfo, tenantInstance, deleteEntireApi, tenantId,
                 tenantsLength, apisLength, value, reason, calls, unhandled>>
  /\ UNCHANGED concurrent

\* utils.getTenants, getApis, deleteApiFromGateway or addApiToGateway rejects
gatewayRejects ==
  /\ pc \in {"tenantsThen", "apisThen", "successThen"}
  /\ \E e \in GatewayErrors : reason' = e
  /\ pc' = "catch"
  /\ UNCHANGED <<input, message, gwInfo, tenantInstance, deleteEntireApi, tenantId,
                 tenantsLength, apisLength, value, result, calls, unhandled>>
  /\ UNCHANGED concurrent

\* line 133 without the prefix
catchReason_bare(r) == r

\* line 133
catchReason(r) == Prefix \o r

\* lines 131-134 with the rejection turned into a success
catch_swallow ==
  /\ pc = "catch"
  /\ result' = Fulfilled
  /\ pc' = "done"
  /\ UNCHANGED <<input, message, gwInfo, tenantInstance, deleteEntireApi, tenantId,
                 tenantsLength, apisLength, value, reason, calls, unhandled>>
  /\ UNCHANGED concurrent

\* lines 131-134
catch ==
  /\ pc = "catch"
  /\ result' = Rejected(catchReason(reason))
  /\ pc' = "failed"
  /\ UNCHANGED <<input, message, gwInfo, tenantInstance, deleteEntireApi, tenantId,
                 tenantsLength, apisLength, value, reason, calls, unhandled>>
  /\ UNCHANGED concurrent

Next ==
  \/ main
  \/ tenantsThen
  \/ tenantIdThen
  \/ apisThen
  \/ gwApiThen
  \/ successThen
  \/ gatewayRejects
  \/ catch

Spec == Init /\ [][Next]_vars

TypeOK ==
  /\ pc \in {"main", "tenantsThen", "tenantIdThen", "apisThen", "gwApiThen",
             "successThen", "catch", "done", "failed", "threw"}
  /\ result.kind \in {"pending", "fulfilled", "rejected", "threw"}
  /\ deleteEntireApi \in BOOLEAN
  /\ tenantsLength \in -1..MaxTenants
  /\ apisLength \in -1..MaxApis

(***************************************************************************)
(* Several invocations against one gateway.  The gateway answers the calls *)
(* from what it holds: getTenants and getApis list the matching records,   *)
(* deleteApiFromGateway removes the API with the id, addApiToGateway puts  *)
(* the document in the place of the API's endpoint definitions.            *)
(***************************************************************************)
NumInvocations == 2

Invocations == 1..NumInvocations

BasePaths == <<"/base1", "/base2", "/base3">>

ApiIdOf == <<"api1", "api2", "api3">>

AllResources == {Resource("/a", "get"), Resource("/a", "post"), Resource("/c", "get")}

\* One tenant; one API for the basepath of each invocation and, when dup,
\* a second API with the basepath of the first.
StoreOf(dup) ==
  [tenants |-> <<[id |-> Str("t1"), namespace |-> Str("nsMeta"),
                  instance |-> Str("openwhisk")]>>,
   apis |-> [i \in Invocations |->
               [id |-> Str(ApiIdOf[i]), tenantId |-> Str("t1"),
                basePath |-> Str(BasePaths[i]), resources |-> AllResources]]
            \o (IF dup
                THEN <<[id |-> Str("apiDup"), tenantId |-> Str("t1"),
                        basePath |-> Str(BasePaths[1]),
                        resources |-> {Resource("/a", "get")}]>>
                ELSE <<>>)]

Stores == {StoreOf(dup) : dup \in BOOLEAN}

\* the parameters of invocation i: it targets the API of its own basepath
MessagesOf(i) ==
  [gwUrl : {Str("http://gw.com")},
   gwUser : {Undefined},
   gwPwd : {Undefined},
   namespace : {Undefined},
   ow_meta_namespace : {Str("nsMeta")},
   tenantInstance : {Undefined},
   basepath : {Str(BasePaths[i])},
   relpath : {Undefined, Str("/a")},
   operation : {Undefined, Str("GET")}]

listTenants(g, c) ==
  SelectSeq(g.tenants,
            LAMBDA t : t.namespace = c.namespace /\ t.instance = c.tenantInstance)

listApis(g, c) ==
  SelectSeq(g.apis,
            LAMBDA a : /\ a.tenantId = c.tenantId
                       /\ Truthy(c.basepath) => a.basePath = c.basepath)

resourcesOf(doc) ==
  UNION {{[gatewayPath |-> p, gatewayMethod |-> o, action |-> doc.paths[p][o]] :
            o \in DOMAIN doc.paths[p]} : p \in DOMAIN doc.paths}

deleteApi(g, c) ==
  [g EXCEPT !.apis = SelectSeq(g.apis, LAMBDA a : a.id # c.apiId)]

replaceApi(g, c) ==
  [g EXCEPT !.apis =
     [k \in 1..Len(g.apis) |->
        IF g.apis[k].id = c.apiId /\ g.apis[k].tenantId = c.tenantId
        THEN [g.apis[k] EXCEPT !.resources = resourcesOf(c.swaggerApi)]
        ELSE g.apis[k]]]

\* main(message) has just been called
newInvocation(m) ==
  [input |-> m, message |-> m, pc |-> "main", gwInfo |-> Undefined,
   tenantInstance |-> Undefined, deleteEntireApi |-> FALSE, tenantId |-> Undefined,
   value |-> Undefined, reason |-> <<>>, result |-> Pending, calls |-> <<>>,
   unhandled |-> {}]

lastCall(s) == s.calls[Len(s.calls)]

\* lines 38-80
mainOf(s) ==
  LET v == validateArgs(s.message)
      m == [v.message EXCEPT
              !.namespace = Or(v.message.ow_meta_namespace, v.message.namespace)]
  IN IF v.threw THEN
       [s EXCEPT !.pc = "threw", !.result = Thrown(v.ret), !.message = v.message]
     ELSE IF v.ret # <<>> THEN
       [s EXCEPT !.pc = "failed", !.result = Rejected(v.ret), !.message = v.message]
     ELSE
       [s EXCEPT !.message = m,
                 !.gwInfo = makeGwInfo(m),
                 !.tenantInstance = Or(m.tenantInstance, Str("openwhisk")),
                 !.deleteEntireApi = ~ Truthy(m.relpath),
                 !.calls = Append(s.calls,
                                  getTenants(makeGwInfo(m), m.namespace,
                                             Or(m.tenantInstance, Str("openwhisk")))),
                 !.pc = "tenantsThen"]

\* lines 81-93, for the tenants the gateway lists
tenantsThenOf(s, g) ==
  LET r == tenantsResult(listTenants(g, lastCall(s)), s.message, s.tenantInstance)
  IN IF r.rejected
     THEN [s EXCEPT !.reason = r.v, !.pc = "catch"]
     ELSE [s EXCEPT !.tenantId = r.v, !.value = r.v, !.pc = "tenantIdThen"]

\* lines 94-97
tenantIdThenOf(s) ==
  [s EXCEPT !.calls = Append(s.calls, getApis(s.gwInfo, s.value, s.message.basepath)),
            !.pc = "apisThen"]

\* lines 98-108, for the APIs the gateway lists
apisThenOf(s, g) ==
  LET r == apisResult(listApis(g, lastCall(s)), s.message)
  IN IF r.rejected
     THEN [s EXCEPT !.reason = r.v, !.pc = "catch",
                    !.unhandled = s.unhandled \cup r.dropped]
     ELSE [s EXCEPT !.value = r.v, !.pc = "gwApiThen",
                    !.unhandled = s.unhandled \cup r.dropped]

\* lines 109-126
gwApiThenOf(s) ==
  IF s.deleteEntireApi THEN
    [s EXCEPT !.calls = Append(s.calls, deleteCall(s.gwInfo, s.value)),
              !.pc = "successThen"]
  ELSE
    LET swaggerApi == generateSwaggerApiFromGwApi(s.value)
        endpoint == makeEndpoint(s.message)
        swaggerOrErrMsg == removeEndpointFromSwaggerApi(swaggerApi, endpoint)
        edit == <<generateCall(s.value), removeCall(swaggerApi, endpoint)>>
    IN IF isErrMsg(swaggerOrErrMsg)
       THEN [s EXCEPT !.calls = s.calls \o edit,
                      !.reason = swaggerOrErrMsg.v,
                      !.pc = "catch"]
       ELSE [s EXCEPT !.calls = s.calls \o edit
                                \o <<updateCall(s.gwInfo, s.value, swaggerOrErrMsg)>>,
                      !.pc = "successThen"]

\* lines 127-130
successThenOf(s) == [s EXCEPT !.pc = "done", !.result = Fulfilled]

\* lines 131-134
catchOf(s) == [s EXCEPT !.result = Rejected(catchReason(s.reason)), !.pc = "failed"]

Ended(s) == s.pc \in {"done", "failed", "threw"}

\* the handler of invocation s that runs next, against the gateway g
handlerOf(s, g) ==
  CASE s.pc = "main" -> mainOf(s)
    [] s.pc = "tenantsThen" -> tenantsThenOf(s, g)
    [] s.pc = "tenantIdThen" -> tenantIdThenOf(s)
    [] s.pc = "apisThen" -> apisThenOf(s, g)
    [] s.pc = "gwApiThen" -> gwApiThenOf(s)
    [] s.pc = "successThen" -> successThenOf(s)
    [] s.pc = "catch" -> catchOf(s)

\* the gateway once the pending call of s has been served
served(s, g) ==
  IF s.pc = "successThen" THEN
    IF lastCall(s).op = "deleteApiFromGateway"
    THEN deleteApi(g, lastCall(s))
    ELSE replaceApi(g, lastCall(s))
  ELSE g

InitConcurrent ==
  /\ message = Undefined
  /\ input = Undefined
  /\ pc = "main"
  /\ gwInfo = Undefined
  /\ tenantInstance = Undefined
  /\ deleteEntireApi = FALSE
  /\ tenantId = Undefined
  /\ tenantsLength = -1
  /\ apisLength = -1
  /\ value = Undefined
  /\ reason = <<>>
  /\ result = Pending
  /\ calls = <<>>
  /\ unhandled = {}
  /\ \E ms \in [Invocations -> UNION {MessagesOf(i) : i \in Invocations}] :
       /\ \A i \in Invocations : ms[i] \in MessagesOf(i)
       /\ invs = [i \in Invocations |-> newInvocation(ms[i])]
  /\ gateway \in Stores
  /\ gatewayAtStart = gateway

\* one handler of one invocation runs
runHandler ==
  \E i \in Invocations :
    /\ ~ Ended(invs[i])
    /\ invs' = [invs EXCEPT ![i] = handlerOf(invs[i], gateway)]
    /\ gateway' = served(invs[i], gateway)
    /\ UNCHANGED <<input, message, pc, gwInfo, tenantInstance, deleteEntireApi,
                   tenantId, tenantsLength, apisLength, value, reason, result, calls,
                   unhandled, gatewayAtStart>>

NextConcurrent == runHandler

ConcurrentSpec == InitConcurrent /\ [][NextConcurrent]_vars

(***************************************************************************)
(* Vocabulary of the properties.                                           *)
(***************************************************************************)
GatewayOps == {"getTenants", "getApis", "deleteApiFromGateway", "addApiToGateway"}

EditOps == {"generateSwaggerApiFromGwApi", "removeEndpointFromSwaggerApi"}

CallsOf(ops) == SelectSeq(calls, LAMBDA c : c.op \in ops)

NoCallOf(ops) == CallsOf(ops) = <<>>

Failed == pc = "failed" /\ result.kind = "rejected"

\* the reason the chain is or was rejected with is r
FailsWith(r) ==
  /\ pc \in {"catch", "failed"}
  /\ reason = r
  /\ pc = "failed" => result = Rejected(Prefix \o r)

noTenantMsg == <<"No Tenant found for namespace ", message.namespace.v>>

multipleTenantsMsg ==
  <<"Internal error. Multiple API Gateway tenants found for namespace ",
    message.namespace.v, " and tenant instance ", tenantInstance.v>>

\* the API the chain resolved, once the third handler has returned one
ApiResolved == apisLength >= 1

\* the fourth handler (the deletion decision) has run
Decided == ApiResolved /\ pc # "gwApiThen"

(***************************************************************************)
(* C1: when getApis returns more than one API, the invocation ends in      *)
(* Failed with the "multiple APIs" internal error, and neither the         *)
(* deletion nor the edit or the replacement of the API is ever called.     *)
(***************************************************************************)
C1_AmbiguousApiFails ==
  apisLength > 1 =>
    /\ NoCallOf({"deleteApiFromGateway", "addApiToGateway"} \cup EditOps)
    /\ FailsWith(multipleApisMsg(message))

NoNamespace(m) == ~ Truthy(m.ow_meta_namespace) /\ ~ Truthy(m.namespace)

LacksRequired(m) ==
  m = Undefined \/ ~ Truthy(m.gwUrl) \/ NoNamespace(m) \/ ~ Truthy(m.basepath)

RequiredErrors(m) ==
  IF m = Undefined
  THEN {<<"Internal error.  A message parameter was not supplied.">>}
  ELSE (IF Truthy(m.gwUrl) THEN {} ELSE {<<"gwUrl is required.">>})
       \cup (IF Truthy(m.ow_meta_namespace) THEN {} ELSE {<<"__ow_meta_namespace is required.">>})
       \cup (IF Truthy(m.basepath) THEN {} ELSE {<<"basepath is required.">>})

PlainNamespaceOnly(m) ==
  /\ m # Undefined
  /\ Truthy(m.gwUrl)
  /\ Truthy(m.basepath)
  /\ Truthy(m.namespace)
  /\ ~ Truthy(m.ow_meta_namespace)
  /\ Truthy(m.operation) => (Truthy(m.relpath) /\ m.operation.t = "string")

C4_PlainNamespaceAccepted ==
  (PlainNamespaceOnly(message) /\ pc # "main") =>
    /\ calls # <<>>
    /\ calls[1].op = "getTenants"
    /\ calls[1].namespace = message.namespace

(***************************************************************************)
(* C5: an input with an operation but without a relpath fails with an      *)
(* input error, and neither getTenants nor any later gateway operation is  *)
(* called.                                                                 *)
(***************************************************************************)
InputErrors ==
  {<<"Internal error.  A message parameter was not supplied.">>,
   <<"gwUrl is required.">>,
   <<"__ow_meta_namespace is required.">>,
   <<"basepath is required.">>,
   <<"When specifying an operation, the relpath is required.">>}

OperationButNoRelpath(m) ==
  m # Undefined /\ Truthy(m.operation) /\ ~ Truthy(m.relpath)

C5_OperationRequiresRelpath ==
  (OperationButNoRelpath(message) /\ pc # "main") =>
    /\ Failed
    /\ result.reason \in InputErrors
    /\ NoCallOf(GatewayOps)

C5_Witness ==
  /\ OperationButNoRelpath(message)
  /\ Failed
  /\ result.reason = <<"When specifying an operation, the relpath is required.">>

(***************************************************************************)
(* C6: without a relpath, once the deletion decision is taken there is     *)
(* exactly one call of deleteApiFromGateway, with the id of the resolved   *)
(* API, and the document is never converted, edited or sent back.          *)
(***************************************************************************)
C6_WholeApiDelete ==
  (message # Undefined /\ ~ Truthy(message.relpath)) =>
    /\ NoCallOf(EditOps \cup {"addApiToGateway"})
    /\ IF Decided
       THEN CallsOf({"deleteApiFromGateway"}) = <<deleteApiFromGateway(gwInfo, value.id)>>
       ELSE NoCallOf({"deleteApiFromGateway"})

C6_Witness ==
  /\ message # Undefined
  /\ ~ Truthy(message.relpath)
  /\ pc = "done"
  /\ Len(CallsOf({"deleteApiFromGateway"})) = 1

(***************************************************************************)
(* C7: when the endpoint removal reports that the path or the operation    *)
(* does not exist, the invocation fails with that reason and neither       *)
(* addApiToGateway nor deleteApiFromGateway is called.                     *)
(***************************************************************************)
RemovalOf(c) == removeEndpointFromSwaggerApi(c.swaggerApi, c.endpoint)

C7_MissingTargetFails ==
  \A i \in 1..Len(calls) :
    (calls[i].op = "removeEndpointFromSwaggerApi" /\ RemovalOf(calls[i]).t = "string") =>
      /\ FailsWith(RemovalOf(calls[i]).v)
      /\ NoCallOf({"addApiToGateway", "deleteApiFromGateway"})

C7_Witness ==
  /\ Failed
  /\ \E i \in 1..Len(calls) :
       /\ calls[i].op = "removeEndpointFromSwaggerApi"
       /\ Truthy(calls[i].endpoint.gatewayMethod)
       /\ calls[i].endpoint.gatewayPath.v \in DOMAIN calls[i].swaggerApi.paths
       /\ result.reason = Prefix \o RemovalOf(calls[i]).v

(***************************************************************************)
(* C8: with relpath and operation, the document given to addApiToGateway   *)
(* lacks exactly that operation under that path, lacks the path when that  *)
(* was its only operation, and has every sibling operation and every other *)
(* path as the gateway returned them.                                      *)
(***************************************************************************)
OtherPathsKept(orig, doc, p) ==
  /\ DOMAIN doc.paths \subseteq DOMAIN orig.paths
  /\ \A q \in (DOMAIN orig.paths) \ {p} :
       q \in DOMAIN doc.paths /\ doc.paths[q] = orig.paths[q]

OperationRemoved(orig, doc, p, o) ==
  /\ p \in DOMAIN orig.paths
  /\ o \in DOMAIN orig.paths[p]
  /\ OtherPathsKept(orig, doc, p)
  /\ IF DOMAIN orig.paths[p] = {o}
     THEN p \notin DOMAIN doc.paths
     ELSE /\ p \in DOMAIN doc.paths
          /\ DOMAIN doc.paths[p] = (DOMAIN orig.paths[p]) \ {o}
          /\ \A s \in DOMAIN doc.paths[p] : doc.paths[p][s] = orig.paths[p][s]

C8_OperationRemoved ==
  \A i \in 1..Len(calls) :
    (calls[i].op = "addApiToGateway" /\ Truthy(message.operation)) =>
      OperationRemoved(generateSwaggerApiFromGwApi(value), calls[i].swaggerApi,
                       message.relpath.v, message.operation.v)

C8_Witness ==
  /\ pc = "done"
  /\ Truthy(message.operation)
  /\ \E i \in 1..Len(calls) :
       /\ calls[i].op = "addApiToGateway"
       /\ message.relpath.v \in DOMAIN calls[i].swaggerApi.paths
       /\ DOMAIN calls[i].swaggerApi.paths # {message.relpath.v}

(***************************************************************************)
(* C9: with relpath and no operation, the document given to                *)
(* addApiToGateway lacks that path with all its operations, and has every  *)
(* other path as the gateway returned it.                                  *)
(***************************************************************************)
PathRemoved(orig, doc, p) ==
  /\ p \in DOMAIN orig.paths
  /\ p \notin DOMAIN doc.paths
  /\ OtherPathsKept(orig, doc, p)

C9_PathRemoved ==
  \A i \in 1..Len(calls) :
    (calls[i].op = "addApiToGateway" /\ ~ Truthy(message.operation)) =>
      PathRemoved(generateSwaggerApiFromGwApi(value), calls[i].swaggerApi,
                  message.relpath.v)

C9_Witness ==
  /\ pc = "done"
  /\ ~ Truthy(message.operation)
  /\ \E i \in 1..Len(calls) :
       /\ calls[i].op = "addApiToGateway"
       /\ Cardinality(DOMAIN generateSwaggerApiFromGwApi(value).paths[message.relpath.v]) > 1
       /\ DOMAIN calls[i].swaggerApi.paths # {}

(***************************************************************************)
(* C10: every failure returned to the caller starts with the prefix        *)
(* "API deletion failure: ".                                               *)
(***************************************************************************)
HasPrefix(r) == Len(r) > 0 /\ Head(r) = Head(Prefix)

C10_EveryFailurePrefixed ==
  result.kind = "rejected" => HasPrefix(result.reason)

(***************************************************************************)
(* C10 as amended: a failure of the promise chain (tenant resolution, API  *)
(* resolution, endpoint removal or a gateway call) is the prefix "API      *)
(* deletion failure: " followed by the cause, the prefix occurring once;   *)
(* a failure of the input validation is the validation message alone.      *)
(***************************************************************************)
C10_ChainFailuresPrefixed ==
  result.kind = "rejected" =>
    IF calls = <<>>
    THEN result.reason \in InputErrors /\ ~ HasPrefix(result.reason)
    ELSE /\ result.reason = Prefix \o reason
         /\ reason # <<>>
         /\ ~ HasPrefix(reason)

C10_Witness ==
  /\ result.kind = "rejected"
  /\ CallsOf({"addApiToGateway"}) # <<>>
  /\ result.reason = Prefix \o <<"gateway error">>

(***************************************************************************)
(* C11: the operation is matched without regard to letter case: the method *)
(* given to the endpoint removal, and the operation every later step sees, *)
(* is the lower-case form of the operation the caller passed, so "GET" and *)
(* "get" lead to the same removal.                                         *)
(***************************************************************************)
LowerCased(s) ==
  CASE s \in {"GET", "get"} -> "get"
    [] s \in {"POST", "post"} -> "post"
    [] OTHER -> s

Normalized(operation) ==
  IF Truthy(operation) THEN Str(LowerCased(operation.v)) ELSE operation

C11_OperationCaseInsensitive ==
  /\ calls # <<>> => message.operation = Normalized(input.operation)
  /\ \A i \in 1..Len(calls) :
       calls[i].op = "removeEndpointFromSwaggerApi" =>
         calls[i].endpoint.gatewayMethod = Normalized(input.operation)

C11_Witness ==
  /\ input # Undefined
  /\ input.operation = Str("GET")
  /\ pc = "done"
  /\ \E i \in 1..Len(calls) :
       /\ calls[i].op = "removeEndpointFromSwaggerApi"
       /\ calls[i].endpoint.gatewayMethod = Str("get")

(***************************************************************************)
(* C12: the input validation never throws: whatever the parameters, main   *)
(* ends the validation with a result, not with an exception.               *)
(***************************************************************************)
C12_ValidationNeverThrows ==
  pc # "threw" /\ result.kind # "threw"

(***************************************************************************)
(* C13: every gateway operation is called at most once, and as soon as a   *)
(* step has produced an error the chain is rejected (no error is dropped), *)
(* no further call is made and the invocation ends in Failed.              *)
(***************************************************************************)
ErrorProduced == reason # <<>> \/ unhandled # {}

C13_AbortOnFirstFailure ==
  /\ \A op \in GatewayOps : Len(CallsOf({op})) <= 1
  /\ unhandled = {}
  /\ ErrorProduced =>
       /\ pc \in {"catch", "failed"}
       /\ pc = "failed" => result = Rejected(Prefix \o reason)

(***************************************************************************)
(* C14: the workflow is linear.  Every step moves along                    *)
(* Validating -> ResolvingTenant -> ResolvingApi ->                        *)
(* (DeletingWholeApi | EditingEndpoint -> ApplyingUpdate) -> Done, or to   *)
(* Failed; a gateway call is made only when no other call is pending, one  *)
(* per step; Done and Failed have no successor.                            *)
(***************************************************************************)
StageOf(op) ==
  CASE op = "getTenants" -> "ResolvingTenant"
    [] op = "getApis" -> "ResolvingApi"
    [] op = "deleteApiFromGateway" -> "DeletingWholeApi"
    [] op \in EditOps -> "EditingEndpoint"
    [] op = "addApiToGateway" -> "ApplyingUpdate"

\* the state of the workflow: the end reached, or the stage of the last call
StateOf(p, cs) ==
  CASE p = "done" -> "Done"
    [] p = "failed" -> "Failed"
    [] cs = <<>> -> "Validating"
    [] OTHER -> StageOf(cs[Len(cs)].op)

Successors(st) ==
  CASE st = "Validating" -> {"ResolvingTenant", "Failed"}
    [] st = "ResolvingTenant" -> {"ResolvingApi", "Failed"}
    [] st = "ResolvingApi" -> {"DeletingWholeApi", "EditingEndpoint", "Failed"}
    [] st = "DeletingWholeApi" -> {"Done", "Failed"}
    [] st = "EditingEndpoint" -> {"ApplyingUpdate", "Failed"}
    [] st = "ApplyingUpdate" -> {"Done", "Failed"}
    [] OTHER -> {}

Awaiting == pc \in {"tenantsThen", "apisThen", "successThen"}

LinearStep ==
  LET n == Len(calls)
      added == SubSeq(calls', n + 1, Len(calls'))
      path == <<StateOf(pc, calls)>>
              \o [i \in 1..Len(added) |-> StageOf(added[i].op)]
              \o <<StateOf(pc', calls')>>
  IN /\ StateOf(pc, calls) \notin {"Done", "Failed"}
     /\ Len(calls') >= n
     /\ SubSeq(calls', 1, n) = calls
     /\ \A i \in 1..(Len(path) - 1) :
          path[i + 1] = path[i] \/ path[i + 1] \in Successors(path[i])
     /\ Len(SelectSeq(added, LAMBDA c : c.op \in GatewayOps)) <= 1
     /\ added # <<>> => ~ Awaiting

C14_LinearWorkflow == [][LinearStep]_vars

C14_Witness ==
  /\ pc = "done"
  /\ CallsOf(EditOps) # <<>>
  /\ CallsOf({"addApiToGateway"}) # <<>>

(***************************************************************************)
(* C15: a partial deletion calls addApiToGateway once, with the tenant id  *)
(* the tenant resolution gave, the id of the resolved API and the document *)
(* the endpoint removal returned, also when the API's own tenantId field   *)
(* is another one.                                                         *)
(***************************************************************************)
EditedDocument ==
  removeEndpointFromSwaggerApi(generateSwaggerApiFromGwApi(value),
                               [gatewayMethod |-> message.operation,
                                gatewayPath |-> message.relpath]).v

C15_ReplaceWithResolvedTenant ==
  /\ Len(CallsOf({"addApiToGateway"})) <= 1
  /\ \A i \in 1..Len(calls) :
       calls[i].op = "addApiToGateway" =>
         calls[i] = addApiToGateway(gwInfo, tenantId, EditedDocument, value.id)
  /\ (pc = "done" /\ ~ deleteEntireApi) => CallsOf({"addApiToGateway"}) # <<>>

(***************************************************************************)
(* C16: getTenants is called with the value of __ow_meta_namespace         *)
(* whenever that field is present, whatever the plain namespace is, and    *)
(* with the tenant instance "openwhisk" when tenantInstance is absent or   *)
(* empty, otherwise with the tenantInstance that was passed.               *)
(***************************************************************************)
C16_CanonicalNamespaceAndInstance ==
  calls # <<>> =>
    /\ calls[1].op = "getTenants"
    /\ Truthy(input.ow_meta_namespace) => calls[1].namespace = input.ow_meta_namespace
    /\ calls[1].tenantInstance =
         IF Truthy(input.tenantInstance) THEN input.tenantInstance ELSE Str("openwhisk")

C16_Witness ==
  /\ calls # <<>>
  /\ input.namespace = Str("nsPlain")
  /\ calls[1].namespace = Str("nsMeta")
  /\ input.tenantInstance = Str("")
  /\ calls[1].tenantInstance = Str("openwhisk")

(***************************************************************************)
(* C17: every invocation comes to an end in Done or in Failed: a state in  *)
(* which no handler can run and no call is pending is one of the two; and  *)
(* Done is reached only when the last call made was the gateway call of    *)
(* the branch (deleteApiFromGateway without relpath, addApiToGateway with  *)
(* it) and that call succeeded.                                            *)
(***************************************************************************)
C17_EndsDoneOrFailed ==
  /\ ~ ENABLED Next => pc \in {"done", "failed"}
  /\ pc = "done" =>
       /\ result = Fulfilled
       /\ calls # <<>>
       /\ calls[Len(calls)].op =
            IF Truthy(input.relpath) THEN "addApiToGateway" ELSE "deleteApiFromGateway"
       /\ reason = <<>>

(***************************************************************************)
(* C18: invocations that run at the same time and target different APIs    *)
(* are independent: whatever the interleaving of their handlers, each      *)
(* makes the calls, with the arguments, and gets the result it would have  *)
(* made and got alone against the gateway as it was at the start.          *)
(***************************************************************************)
RECURSIVE RunAlone(_, _)
RunAlone(s, g) ==
  IF Ended(s) THEN s ELSE RunAlone(handlerOf(s, g), served(s, g))

IsPrefix(a, b) == Len(a) <= Len(b) /\ SubSeq(b, 1, Len(a)) = a

C18_InvocationsIndependent ==
  \A i \in Invocations :
    LET alone == RunAlone(newInvocation(invs[i].input), gatewayAtStart)
    IN /\ IsPrefix(invs[i].calls, alone.calls)
       /\ Ended(invs[i]) =>
            /\ invs[i].calls = alone.calls
            /\ invs[i].result = alone.result
            /\ invs[i].pc = alone.pc

C18_Witness ==
  /\ \A i \in Invocations : invs[i].pc = "done"
  /\ \E i, j \in Invocations :
       /\ lastCall(invs[i]).op = "deleteApiFromGateway"
       /\ lastCall(invs[j]).op = "addApiToGateway"
  /\ gateway # gatewayAtStart
====
